---- MODULE Spec2Model ----
(***************************************************************************)
(* Model of the CatalogIQ -> Shopify importer (src/src/main.py).           *)
(*                                                                         *)
(* One Pub/Sub message triggers process_product, which runs sync_products  *)
(* for the offset in the message: fetch one page, for every record map,    *)
(* submit, poll the productSet operation, attach media, then publish       *)
(* offset + 1.  An empty page sends the completion e-mail instead.         *)
(*                                                                         *)
(* An invocation keeps no state between runs: everything it knows is in    *)
(* its local variables and in the message it was handed.  Invocations are  *)
(* therefore modelled one at a time; what they did to the outside world    *)
(* (messages, processed pages, e-mails) is kept in history variables.      *)
(* Every blocking network call is one step of the invocation; the          *)
(* response is chosen by the environment.                                  *)
(***************************************************************************)
EXTENDS Integers, Sequences, FiniteSets, Bags, TLC

(***************************************************************************)
(* Bounds of the model.                                                    *)
(***************************************************************************)
\* Largest source catalog (number of records).
MaxCatalog == 2
\* Largest page the source API hands back for one request.
MaxPage == 2
\* How many times the transport may deliver an already delivered message again.
MaxRedeliver == 1
\* Variants of a source product, and product-level attributes.
MaxVariants == 2
MaxMeta == 2

\* limit = 1 in sync_products.
limit == 1

\* Python's None, and the truth value of a string-or-None value.
Null == "None"
Truthy_Always(x) == TRUE
Truthy(x) == x \notin {Null, ""}

(***************************************************************************)
(* Source records.  A key the source API left out is a field the record    *)
(* does not have.                                                          *)
(***************************************************************************)
Lamp ==
    [name |-> "lamp", variants |-> <<>>, attributes |-> <<>>,
     main_image |-> "main.png",
     images |-> <<[url |-> "a.png"], [url |-> "b.png"]>>]
NoName ==
    [variants |-> <<>>, attributes |-> <<>>,
     main_image |-> "main.png", images |-> <<[url |-> "a.png"]>>]
NoMainKey ==
    [name |-> "bulb", variants |-> <<>>, attributes |-> <<>>,
     images |-> <<[url |-> "a.png"]>>]
NullMain ==
    [name |-> "shade", variants |-> <<>>, attributes |-> <<>>,
     main_image |-> Null,
     images |-> <<[alt |-> "no url"], [url |-> "b.png"]>>]
ProductSamples == {Lamp, NoName, NoMainKey, NullMain}

RECURSIVE SeqsUpTo(_, _)
SeqsUpTo(S, n) ==
    IF n = 0 THEN {<<>>}
    ELSE LET shorter == SeqsUpTo(S, n - 1)
         IN  shorter \cup {Append(s, x) : s \in {t \in shorter : Len(t) = n - 1}, x \in S}

\* str(n) and int(s): a number and its decimal digits.
RECURSIVE str(_)
str(n) == IF n < 10 THEN <<n>> ELSE Append(str(n \div 10), n % 10)

RECURSIVE int(_)
int(s) == IF Len(s) = 0 THEN 0
          ELSE 10 * int(SubSeq(s, 1, Len(s) - 1)) + s[Len(s)]

(***************************************************************************)
(* Source records for the mapper.                                          *)
(***************************************************************************)
\* "API only supports 100 variants per product" (comment at main.py:47).
VariantLimit == 100
\* ciq_product['variants'][:99] in mian.py.
VariantCap == 99

\* Attribute lists of a variant: no attribute, one axis, an empty value, two
\* axes in either order, the same axis twice.
VariantAttributes ==
    { <<>>,
      <<[name |-> "Size", value |-> "S"]>>,
      <<[name |-> "Size", value |-> "M"]>>,
      <<[name |-> "Size", value |-> ""]>>,
      <<[name |-> "Color", value |-> "Red"]>>,
      <<[name |-> "Size", value |-> "S"], [name |-> "Color", value |-> "Red"]>>,
      <<[name |-> "Color", value |-> "Red"], [name |-> "Size", value |-> "M"]>>,
      <<[name |-> "Size", value |-> "S"], [name |-> "Size", value |-> "M"]>> }

\* Product-level attributes: two with the same name, one with an empty value.
ProductAttributes ==
    { [category |-> "spec", description |-> "Weight", name |-> "weight", value |-> "2kg"],
      [category |-> "spec", description |-> "Weight", name |-> "weight", value |-> ""],
      [category |-> "care", description |-> "Washing", name |-> "wash", value |-> "cold"] }

\* Values of description_sale, when the key is there.
Descriptions == {Null, "", "<p>Warm light</p>"}

\* The i-th variant of a product gets the default_code str(i).
Variants(lists) ==
    [i \in 1..Len(lists) |-> [default_code |-> str(i), attributes |-> lists[i]]]

\* Products that differ in their variants.
VariantProducts ==
    { [name |-> "lamp", variants |-> Variants(lists), attributes |-> <<>>] :
         lists \in SeqsUpTo(VariantAttributes, MaxVariants) }
\* Products that differ in their attributes and description.
PlainProducts ==
    { [name |-> "lamp", variants |-> <<>>, attributes |-> attrs] :
         attrs \in SeqsUpTo(ProductAttributes, MaxMeta) }
DescribedProducts ==
    { [name |-> "lamp", variants |-> <<>>, attributes |-> attrs, description_sale |-> d] :
         attrs \in SeqsUpTo(ProductAttributes, MaxMeta), d \in Descriptions }
\* Records with a key left out.
PartialProducts ==
    { [variants |-> <<>>, attributes |-> <<>>],
      [name |-> "lamp", attributes |-> <<>>],
      [name |-> "lamp", variants |-> Variants(<<<<[name |-> "Size", value |-> "S"]>>>>)],
      [name |-> "lamp", variants |-> <<[attributes |-> <<>>]>>, attributes |-> <<>>],
      [name |-> "lamp", variants |-> <<>>,
       attributes |-> <<[name |-> "weight", value |-> "2kg"]>>] }
\* One variant more than the platform takes; the variants past mian.py's
\* slice are the only ones of size L.
BigProduct ==
    [name |-> "chandelier",
     variants |-> Variants([i \in 1..(VariantLimit + 1) |->
                              <<[name |-> "Size",
                                 value |-> IF i <= VariantCap THEN "S" ELSE "L"]>>]),
     attributes |-> <<>>]
MapInputs ==
    VariantProducts \cup PlainProducts \cup DescribedProducts \cup PartialProducts
        \cup {BigProduct}

(***************************************************************************)
(* Responses of the external services.                                     *)
(***************************************************************************)
\* Source API status codes.
StatusCodes == {200, 404, 500}
\* productOperation bodies; product is <<>> for null, <<id>> otherwise.
\* The last one has no data.productOperation.status.
PollResponses ==
    { [status |-> "PENDING",  product |-> <<>>,          userErrors |-> <<>>],
      [status |-> "RUNNING",  product |-> <<"gid://9">>, userErrors |-> <<"stale">>],
      [status |-> "FAILED",   product |-> <<>>,          userErrors |-> <<"failed">>],
      [status |-> "COMPLETE", product |-> <<"gid://1">>, userErrors |-> <<>>],
      [status |-> "COMPLETE", product |-> <<>>,          userErrors |-> <<"invalid">>],
      [errors |-> "throttled"] }
\* productSet responses: with an operation handle, without one, or the
\* request itself raising.
SubmitOutcomes == {"handle", "no_handle", "raises"}
\* productCreateMedia outcomes: fine, a body with 'errors', a status other
\* than 200, or the request / json() raising.
AttachOutcomes == {"ok", "errors", "non200", "raises"}
\* The response to the main image's call is never looked at: an answer or
\* the request raising.
MainOutcomes == {"ok", "errors", "raises"}
\* SendGrid send: fine or raising.
SendOutcomes == {"ok", "raises"}

\* The configuration sync_products reads with os.getenv.
EnvKeys == {"CATALOGIQ_API_KEY", "SENDGRID_API_KEY", "SHOPIFY_STORE", "SHOPIFY_ACCESS_TOKEN"}

VARIABLES
    catalog,      \* the source catalog (external, never changes)
    environ,      \* os.environ: each key's value, None when it is not set
    mapper,       \* one run of map_catalogiq_to_shopify and the post of its result
    queue,        \* Pub/Sub messages published and not yet delivered (a bag)
    delivered,    \* message payloads delivered so far
    redelivered,  \* bag of offsets whose message was delivered again
    processed,    \* bag of offsets whose page was fetched non-empty and processed
    notified,     \* number of calls of the completion notifier
    pc,           \* position of the running invocation, "idle" when none runs
    offset,       \* sync_products: offset
    status_code,  \* sync_products: response_catalogiq.status_code
    products,     \* sync_products: products
    idx,          \* sync_products: index in products of the record of the loop
    outcomes,     \* sync_products: how each finished record of the page ended
    calls,        \* sync_products: its own network calls, in order
    result,       \* sync_products: its return value
    record_calls, \* sync_products_to_shopify: its network calls, in order
    poll_result,  \* sync_products_to_shopify: status, product_id, user_errors
    image_error,  \* sync_products_to_shopify: the handler of the media section ran
    img,          \* sync_products_to_shopify: index of img in ciq_product['images']
    response,     \* check_operation_status: status_data of the last query
    slept         \* check_operation_status: time.sleep ran for this operation

world == <<catalog, environ, mapper, queue, delivered, redelivered, processed, notified>>
page == <<offset, status_code, products, calls, result>>
vars == <<catalog, environ, mapper, queue, delivered, redelivered, processed, notified, pc, offset,
          status_code, products, idx, outcomes, calls, result, record_calls,
          poll_result, image_error, img, response, slept>>

(***************************************************************************)
(* publish_offset / process_product: the offset travels as a decimal       *)
(* string inside a JSON object.                                            *)
(***************************************************************************)
message_json(n) == [offset |-> str(n)]

\* os.getenv(k)
getenv(k) == environ[k]
\* No mapping is under way.
NoMapper == [stage |-> "off"]

NoResult == [status |-> "", product_id |-> Null, user_errors |-> <<>>]
NoResponse == [status |-> ""]

\* A trigger message for offset 0 is waiting; nothing has run yet.
Idle ==
    /\ queue = SetToBag({message_json(0)})
    /\ delivered = {}
    /\ redelivered = EmptyBag
    /\ processed = EmptyBag
    /\ notified = 0
    /\ pc = "idle"
    /\ offset = 0
    /\ status_code = 0
    /\ products = <<>>
    /\ idx = 0
    /\ outcomes = <<>>
    /\ calls = <<>>
    /\ result = "running"
    /\ record_calls = <<>>
    /\ poll_result = NoResult
    /\ image_error = FALSE
    /\ img = 0
    /\ response = NoResponse
    /\ slept = FALSE

Init ==
    /\ catalog \in SeqsUpTo(ProductSamples, MaxCatalog)
    /\ environ = [k \in EnvKeys |-> "secret"]
    /\ mapper = NoMapper
    /\ Idle

\* The same start with any part of the configuration missing.
ConfigInit ==
    /\ catalog \in SeqsUpTo(ProductSamples, MaxCatalog)
    /\ environ \in [EnvKeys -> {Null, "secret"}]
    /\ mapper = NoMapper
    /\ Idle

(***************************************************************************)
(* map_catalogiq_to_shopify raises KeyError when a key it subscripts is    *)
(* missing.                                                                *)
(***************************************************************************)
Has(r, k) == k \in DOMAIN r

VariantKeysOk(v) ==
    /\ Has(v, "attributes")
    /\ \A i \in 1..Len(v.attributes) :
          Has(v.attributes[i], "name") /\ Has(v.attributes[i], "value")
    /\ Has(v, "default_code")

MetafieldKeysOk(a) ==
    Has(a, "category") /\ Has(a, "description") /\ Has(a, "name") /\ Has(a, "value")

MapRaises(p) ==
    ~ /\ Has(p, "variants")
      /\ \A i \in 1..Len(p.variants) : VariantKeysOk(p.variants[i])
      /\ Has(p, "name")
      /\ Has(p, "attributes")
      /\ \A i \in 1..Len(p.attributes) : MetafieldKeysOk(p.attributes[i])

(***************************************************************************)
(* map_catalogiq_to_shopify.  option_names is a Python set: the order in   *)
(* which it is iterated is not specified, and is the same in both loops    *)
(* over it; the set that makes values unique is iterated in an order of    *)
(* its own.                                                                *)
(***************************************************************************)
\* The orders in which a set may be iterated.
RECURSIVE Orders(_)
Orders(S) ==
    IF S = {} THEN {<<>>}
    ELSE UNION {{<<x>> \o t : t \in Orders(S \ {x})} : x \in S}

\* for variant in variants: for attribute in variant['attributes']:
\*     option_names.add(attribute['name'])
option_names_FirstVariant(ciq_product) ==
    IF Len(ciq_product.variants) = 0 THEN {}
    ELSE {ciq_product.variants[1].attributes[j].name :
             j \in 1..Len(ciq_product.variants[1].attributes)}
option_names(ciq_product) ==
    UNION {{ciq_product.variants[i].attributes[j].name :
               j \in 1..Len(ciq_product.variants[i].attributes)} :
           i \in 1..Len(ciq_product.variants)}

\* next((attr['value'] for attr in variant['attributes']
\*       if attr['name'] == option_name), None)
attribute_value_Last(variant, option_name) ==
    LET hits == {j \in 1..Len(variant.attributes) :
                    variant.attributes[j].name = option_name}
    IN  IF hits = {} THEN Null
        ELSE variant.attributes[CHOOSE j \in hits : \A k \in hits : j >= k].value
attribute_value(variant, option_name) ==
    LET hits == {j \in 1..Len(variant.attributes) :
                    variant.attributes[j].name = option_name}
    IN  IF hits = {} THEN Null
        ELSE variant.attributes[CHOOSE j \in hits : \A k \in hits : j <= k].value

\* for option_name in option_names: if attribute_value: option_values.append(...)
RECURSIVE option_values(_, _)
option_values(variant, order) ==
    IF order = <<>> THEN <<>>
    ELSE LET value == attribute_value(variant, Head(order))
             rest == option_values(variant, Tail(order))
         IN  IF Truthy(value)
             THEN <<[optionName |-> Head(order), name |-> value]>> \o rest
             ELSE rest

\* shopify_variants.append({"sku": ..., "optionValues": option_values})
shopify_variants_Reversed(variants, order) ==
    [i \in 1..Len(variants) |->
        [sku |-> variants[Len(variants) + 1 - i].default_code,
         optionValues |-> option_values(variants[Len(variants) + 1 - i], order)]]
shopify_variants(variants, order) ==
    [i \in 1..Len(variants) |->
        [sku |-> variants[i].default_code,
         optionValues |-> option_values(variants[i], order)]]

\* values.append({"name": attribute['value']}) for every attribute of every
\* variant whose name is option_name, in source order.
values(ciq_product, option_name) ==
    LET variants == ciq_product.variants
        hits == UNION {{<<i, j>> : j \in {j \in 1..Len(variants[i].attributes) :
                                           variants[i].attributes[j].name = option_name}} :
                       i \in 1..Len(variants)}
        before(g, h) == g[1] < h[1] \/ (g[1] = h[1] /\ g[2] < h[2])
        nth(k) == CHOOSE h \in hits : Cardinality({g \in hits : before(g, h)}) = k - 1
    IN  [k \in 1..Cardinality(hits) |->
            [name |-> variants[nth(k)[1]].attributes[nth(k)[2]].value]]

\* values = [dict(t) for t in {tuple(d.items()) for d in values}]
Unique_NoDedupe(vals) == {vals}
Unique(vals) == Orders({vals[j] : j \in 1..Len(vals)})

\* product_options.append({"name": option_name, "values": values})
RECURSIVE product_options(_, _)
product_options(ciq_product, order) ==
    IF order = <<>> THEN {<<>>}
    ELSE {<<[name |-> Head(order), values |-> vals]>> \o rest :
             vals \in Unique(values(ciq_product, Head(order))),
             rest \in product_options(ciq_product, Tail(order))}

\* main.py: '' if not ciq_product.get('description_sale')
\*          else ciq_product.get('description_sale', '')
descriptionHtml(ciq_product) ==
    IF ~Has(ciq_product, "description_sale") THEN ""
    ELSE IF ~Truthy(ciq_product.description_sale) THEN ""
    ELSE ciq_product.description_sale
\* mian.py: ciq_product.get('description_sale', '')
descriptionHtml_mian(ciq_product) ==
    IF ~Has(ciq_product, "description_sale") THEN ""
    ELSE ciq_product.description_sale

\* [{...} for attribute in ciq_product['attributes'] if ciq_product['attributes']]
metafields_NonEmpty(ciq_product) ==
    LET kept == SelectSeq(ciq_product.attributes, LAMBDA attribute : Truthy(attribute.value))
    IN  [i \in 1..Len(kept) |->
            [namespace |-> kept[i].category, description |-> kept[i].description,
             key |-> kept[i].name, value |-> kept[i].value, type |-> "string"]]
metafields(ciq_product) ==
    LET kept == SelectSeq(ciq_product.attributes,
                          LAMBDA attribute : Len(ciq_product.attributes) # 0)
    IN  [i \in 1..Len(kept) |->
            [namespace |-> kept[i].category, description |-> kept[i].description,
             key |-> kept[i].name, value |-> kept[i].value, type |-> "string"]]

\* for variant in ciq_product['variants'][:99] (mian.py)
Truncated(variants) ==
    SubSeq(variants, 1, IF Len(variants) < VariantCap THEN Len(variants) ELSE VariantCap)

\* The dictionaries the mapper may return for a record it does not raise on.
map_catalogiq_to_shopify(ciq_product) ==
    UNION {{[title |-> ciq_product.name,
             vendor |-> "Vendor Name",
             descriptionHtml |-> descriptionHtml(ciq_product),
             productOptions |-> options,
             variants |-> shopify_variants(ciq_product.variants, order),
             metafields |-> metafields(ciq_product)] :
               options \in product_options(ciq_product, order)} :
           order \in Orders(option_names(ciq_product))}
\* The same for the mapper of mian.py.
map_catalogiq_to_shopify_mian(ciq_product) ==
    UNION {{[title |-> ciq_product.name,
             vendor |-> "Vendor Name",
             descriptionHtml |-> descriptionHtml_mian(ciq_product),
             productOptions |-> options,
             variants |-> shopify_variants(Truncated(ciq_product.variants), order),
             metafields |-> metafields(ciq_product)] :
               options \in product_options(ciq_product, order)} :
           order \in Orders(option_names(ciq_product))}

(***************************************************************************)
(* Decisions of the code.                                                  *)
(***************************************************************************)
\* if response_catalogiq.status_code != 200: return
FetchOk_ServerErrorsOnly(s) == s < 500
FetchOk(s) == s = 200
\* if not products:
IsEmptyPage_Never(p) == FALSE
IsEmptyPage(p) == Len(p) = 0
\* for product in products: what follows record i of n.
LoopNext(i, n) == IF i < n THEN "map" ELSE "publish"
\* except Exception as e: ... continue
ExceptContinue_Break(i, n) == "publish"
ExceptContinue(i, n) == LoopNext(i, n)
\* publish_offset(offset + 1)
NextOffset_Skip(o) == o + 2
NextOffset_Same(o) == o
NextOffset(o) == o + 1
\* if status in ['COMPLETE']:
IsComplete_NotPending(s) == s # "PENDING"
IsComplete_Misspelt(s) == s \in {"COMPLETED"}
IsComplete(s) == s \in {"COMPLETE"}
\* try: sg.send(message) except Exception as e: print(...)
send_completion_email_NoTry(out) == IF out = "raises" THEN "raised" ELSE "sent"
send_completion_email(out) == IF out = "raises" THEN "logged" ELSE "sent"
\* return status, product_id, user_errors
Returned_NoErrors(r) ==
    [status      |-> r.status,
     product_id  |-> IF r.product = <<>> THEN Null ELSE r.product[1],
     user_errors |-> <<>>]
Returned(r) ==
    [status      |-> r.status,
     product_id  |-> IF r.product = <<>> THEN Null ELSE r.product[1],
     user_errors |-> r.userErrors]

\* The page the source API answers for ?limit=..&offset=off when it hands
\* back at most n records.
Page(off, n) ==
    SubSeq(catalog, off + 1, IF off + n < Len(catalog) THEN off + n ELSE Len(catalog))

product == products[idx]
Call(c) == record_calls' = Append(record_calls, c)
Submitted(log) == \E j \in 1..Len(log) : log[j].op = "submit"

\* sync_products_to_shopify returned: back in the loop of sync_products.
RecordDone ==
    /\ pc' = LoopNext(idx, Len(products))
    /\ idx' = idx + 1
    /\ outcomes' = Append(outcomes, [raised |-> "", submitted |-> Submitted(record_calls')])
\* sync_products_to_shopify raised: the handler of sync_products runs.
RecordRaised(kind) ==
    /\ pc' = ExceptContinue(idx, Len(products))
    /\ idx' = idx + 1
    /\ outcomes' = Append(outcomes, [raised |-> kind, submitted |-> Submitted(record_calls')])
\* The handler around the media section ran: print, then return.
MediaRaised ==
    /\ image_error' = TRUE
    /\ RecordDone

(***************************************************************************)
(* Transport: delivery of a published message to process_product, and a   *)
(* second delivery of a message that was delivered before.                 *)
(***************************************************************************)
\* process_product(cloud_event): decode the message, then sync_products(offset).
Start(m) ==
    /\ offset' = int(m.offset)
    /\ pc' = "fetch"
    /\ status_code' = 0
    /\ products' = <<>>
    /\ idx' = 0
    /\ outcomes' = <<>>
    /\ calls' = <<>>
    /\ result' = "running"
    /\ UNCHANGED <<catalog, environ, mapper, processed, notified, record_calls, poll_result,
                   image_error, img, response, slept>>

Deliver ==
    /\ pc = "idle"
    /\ \E m \in BagToSet(queue) :
        /\ queue' = queue (-) SetToBag({m})
        /\ delivered' = delivered \cup {m}
        /\ Start(m)
    /\ UNCHANGED redelivered

Redeliver ==
    /\ pc = "idle"
    /\ BagCardinality(redelivered) < MaxRedeliver
    /\ \E m \in delivered :
        /\ redelivered' = redelivered (+) SetToBag({int(m.offset)})
        /\ Start(m)
    /\ UNCHANGED <<queue, delivered>>

(***************************************************************************)
(* sync_products                                                           *)
(***************************************************************************)
\* requests.get(...) answered with status s and a page of at most n records.
Fetch(s, n) ==
    /\ pc = "fetch"
    /\ status_code' = s
    /\ calls' = Append(calls, [op |-> "fetch", offset |-> offset,
                                key |-> getenv("CATALOGIQ_API_KEY")])
    /\ IF ~FetchOk(s)
       THEN /\ pc' = "idle"
            /\ result' = Null
            /\ UNCHANGED <<products, idx, processed>>
       ELSE /\ products' = Page(offset, n)
            /\ IF IsEmptyPage(Page(offset, n))
               THEN /\ pc' = "notify"
                    /\ UNCHANGED <<idx, processed>>
               ELSE /\ pc' = LoopNext(0, Len(Page(offset, n)))
                    /\ idx' = 1
                    /\ processed' = processed (+) SetToBag({offset})
            /\ UNCHANGED result
    /\ UNCHANGED <<catalog, environ, mapper, queue, delivered, redelivered, notified, offset, outcomes,
                   record_calls, poll_result, image_error, img, response, slept>>

Fetch200 == \E n \in 1..MaxPage : Fetch(200, n)
\* The source API honours ?limit=1.
FetchLimit == Fetch(200, limit)
FetchNon200 == \E s \in StatusCodes \ {200} : Fetch(s, limit)

\* send_completion_email (which catches what the send raises), then
\* return "Sync Complete!".
Notify(out) ==
    /\ pc = "notify"
    /\ calls' = Append(calls, [op |-> "email", out |-> out,
                                key |-> getenv("SENDGRID_API_KEY")])
    /\ notified' = notified + 1
    /\ result' = IF send_completion_email(out) = "raised"
                 THEN "Exception" ELSE "Sync Complete!"
    /\ pc' = "idle"
    /\ UNCHANGED <<catalog, environ, mapper, queue, delivered, redelivered, processed, offset,
                   status_code, products, idx, outcomes, record_calls, poll_result,
                   image_error, img, response, slept>>

SendCompletionEmail == \E out \in SendOutcomes : Notify(out)

\* publish_offset(offset + 1), then return "Product Complete!".
Publish ==
    /\ pc = "publish"
    /\ queue' = queue (+) SetToBag({message_json(NextOffset(offset))})
    /\ calls' = Append(calls, [op |-> "publish", message |-> message_json(NextOffset(offset))])
    /\ result' = "Product Complete!"
    /\ pc' = "idle"
    /\ record_calls' = <<>>
    /\ poll_result' = NoResult
    /\ image_error' = FALSE
    /\ UNCHANGED <<catalog, environ, mapper, delivered, redelivered, processed, notified, offset,
                   status_code, products, idx, outcomes, img, response, slept>>

(***************************************************************************)
(* sync_products_to_shopify                                                *)
(***************************************************************************)
\* mapped_product = map_catalogiq_to_shopify(ciq_product)
Map ==
    /\ pc = "map"
    /\ record_calls' = <<>>
    /\ poll_result' = NoResult
    /\ image_error' = FALSE
    /\ IF MapRaises(product)
       THEN RecordRaised("map")
       ELSE /\ pc' = "submit"
            /\ UNCHANGED <<idx, outcomes>>
    /\ UNCHANGED <<world, page, img, response, slept>>

\* requests.post(productSet ...) and the handle taken from its body.
Submit(out) ==
    /\ pc = "submit"
    /\ Call([op |-> "submit", title |-> product.name, out |-> out,
             store |-> getenv("SHOPIFY_STORE"), token |-> getenv("SHOPIFY_ACCESS_TOKEN")])
    /\ IF out = "handle"
       THEN /\ pc' = "poll"
            /\ UNCHANGED <<idx, outcomes>>
       ELSE RecordRaised("submit")
    /\ UNCHANGED <<world, page, poll_result, image_error, img, response, slept>>

SubmitProduct == \E out \in SubmitOutcomes : Submit(out)

(***************************************************************************)
(* check_operation_status                                                  *)
(***************************************************************************)
\* response = requests.post(status query); status_data = response.json()
\* (record_calls keeps one entry for all the queries of one operation).
PollQuery(r) ==
    /\ pc = "poll"
    /\ response' = r
    /\ record_calls' = IF slept THEN record_calls
                       ELSE Append(record_calls, [op |-> "poll"])
    /\ pc' = "poll_check"
    /\ UNCHANGED <<world, page, idx, outcomes, poll_result, image_error, img, slept>>

Poll == \E r \in PollResponses : PollQuery(r)

\* status = status_data[...]['status']; return on COMPLETE, else sleep.
PollCheck ==
    /\ pc = "poll_check"
    /\ UNCHANGED record_calls
    /\ IF ~Has(response, "status")
       THEN /\ RecordRaised("poll")
            /\ response' = NoResponse
            /\ slept' = FALSE
            /\ UNCHANGED poll_result
       ELSE IF IsComplete(response.status)
       THEN /\ poll_result' = Returned(response)
            /\ pc' = "media"
            /\ UNCHANGED <<idx, outcomes, response, slept>>
       ELSE /\ slept' = TRUE
            /\ pc' = "poll"
            /\ UNCHANGED <<idx, outcomes, response, poll_result>>
    /\ UNCHANGED <<world, page, image_error, img>>

(***************************************************************************)
(* sync_products_to_shopify: the media section                             *)
(***************************************************************************)
\* if ciq_product['images']: for img in ciq_product['images']:
EnterImages ==
    IF ~Has(product, "images")
    THEN MediaRaised /\ UNCHANGED img
    ELSE IF Len(product.images) = 0
    THEN RecordDone /\ UNCHANGED <<img, image_error>>
    ELSE pc' = "images" /\ img' = 1 /\ UNCHANGED <<idx, outcomes, image_error>>

\* if product_id: if ciq_product['main_image']:
Media ==
    /\ pc = "media"
    /\ UNCHANGED record_calls
    /\ response' = NoResponse
    /\ slept' = FALSE
    /\ IF ~Truthy(poll_result.product_id)
       THEN RecordDone /\ UNCHANGED <<img, image_error>>
       ELSE IF ~Has(product, "main_image")
       THEN MediaRaised /\ UNCHANGED img
       ELSE IF Truthy(product.main_image)
       THEN pc' = "main_image" /\ UNCHANGED <<idx, outcomes, img, image_error>>
       ELSE EnterImages
    /\ UNCHANGED <<world, page, poll_result>>

\* main_image_response = requests.post(productCreateMedia ...)
AttachMain(out) ==
    /\ pc = "main_image"
    /\ Call([op |-> "attach", alt |-> "Main Image", url |-> product.main_image,
             out |-> out])
    /\ IF out = "raises"
       THEN MediaRaised /\ UNCHANGED img
       ELSE EnterImages
    /\ UNCHANGED <<world, page, poll_result, response, slept>>

AttachMainImage == \E out \in MainOutcomes : AttachMain(out)

\* "originalSource": img['url'] on an entry without 'url'.
ImageKeyError ==
    /\ pc = "images"
    /\ ~Has(product.images[img], "url")
    /\ UNCHANGED record_calls
    /\ MediaRaised
    /\ img' = 0
    /\ UNCHANGED <<world, page, poll_result, response, slept>>

\* image_response = requests.post(...); response_data = image_response.json()
AttachImage(out) ==
    /\ pc = "images"
    /\ Has(product.images[img], "url")
    /\ Call([op |-> "attach", alt |-> "Image", url |-> product.images[img].url,
             out |-> out])
    /\ IF out = "raises"
       THEN MediaRaised /\ img' = 0
       ELSE IF img < Len(product.images)
       THEN img' = img + 1 /\ UNCHANGED <<pc, idx, outcomes, image_error>>
       ELSE RecordDone /\ img' = 0 /\ UNCHANGED image_error
    /\ UNCHANGED <<world, page, poll_result, response, slept>>

AttachImages == \E out \in AttachOutcomes : AttachImage(out)

Next ==
    \/ Deliver
    \/ Redeliver
    \/ Fetch200
    \/ FetchNon200
    \/ SendCompletionEmail
    \/ Publish
    \/ Map
    \/ SubmitProduct
    \/ Poll
    \/ PollCheck
    \/ Media
    \/ AttachMainImage
    \/ ImageKeyError
    \/ AttachImages

Spec == Init /\ [][Next]_vars

TypeOK ==
    /\ pc \in {"idle", "fetch", "notify", "map", "submit", "poll", "poll_check",
               "media", "main_image", "images", "publish"}
    /\ offset \in 0..MaxCatalog
    /\ idx \in 0..(MaxPage + 1)

(***************************************************************************)
(* The pipeline when the source API honours the page size, every fetch     *)
(* answers 200 and every message is delivered exactly once.                *)
(***************************************************************************)
NextChain ==
    \/ Deliver
    \/ FetchLimit
    \/ SendCompletionEmail
    \/ Publish
    \/ Map
    \/ SubmitProduct
    \/ Poll
    \/ PollCheck
    \/ Media
    \/ AttachMainImage
    \/ ImageKeyError
    \/ AttachImages

\* A status query answered COMPLETE.
PollComplete ==
    \E r \in PollResponses : Has(r, "status") /\ r.status = "COMPLETE" /\ PollQuery(r)

\* The invocation's single thread keeps running; nothing is assumed of the
\* answers of the storefront.
PollSpec == Init /\ [][NextChain]_vars /\ WF_vars(PollCheck)

(***************************************************************************)
(* The mapper on its own: one record is mapped by main.py's or mian.py's   *)
(* map_catalogiq_to_shopify and the result is posted as the productSet     *)
(* input.                                                                  *)
(***************************************************************************)
MapInit ==
    /\ catalog = <<>>
    /\ environ = [k \in EnvKeys |-> "secret"]
    /\ mapper \in {[stage |-> "input", ciq_product |-> p] : p \in MapInputs}
    /\ Idle

\* mapped_product = map_catalogiq_to_shopify(ciq_product), main.py
MapMain ==
    /\ mapper.stage = "input"
    /\ IF MapRaises(mapper.ciq_product)
       THEN mapper' = [stage |-> "raised", which |-> "main",
                       ciq_product |-> mapper.ciq_product]
       ELSE \E mapped \in map_catalogiq_to_shopify(mapper.ciq_product) :
               mapper' = [stage |-> "mapped", which |-> "main",
                          ciq_product |-> mapper.ciq_product,
                          mapped_product |-> mapped]
    /\ UNCHANGED <<catalog, environ, queue, delivered, redelivered, processed, notified,
                   pc, page, idx, outcomes, record_calls, poll_result, image_error,
                   img, response, slept>>

\* mapped_product = map_catalogiq_to_shopify(ciq_product), mian.py
MapMian ==
    /\ mapper.stage = "input"
    /\ IF MapRaises(mapper.ciq_product)
       THEN mapper' = [stage |-> "raised", which |-> "mian",
                       ciq_product |-> mapper.ciq_product]
       ELSE \E mapped \in map_catalogiq_to_shopify_mian(mapper.ciq_product) :
               mapper' = [stage |-> "mapped", which |-> "mian",
                          ciq_product |-> mapper.ciq_product,
                          mapped_product |-> mapped]
    /\ UNCHANGED <<catalog, environ, queue, delivered, redelivered, processed, notified,
                   pc, page, idx, outcomes, record_calls, poll_result, image_error,
                   img, response, slept>>

\* requests.post(url, json={'query': mutation, 'variables': {'input': mapped_product}})
Post ==
    /\ mapper.stage = "mapped"
    /\ mapper' = [stage |-> "posted", which |-> mapper.which,
                  ciq_product |-> mapper.ciq_product,
                  mapped_product |-> mapper.mapped_product,
                  json |-> [query |-> "productSet", input |-> mapper.mapped_product]]
    /\ UNCHANGED <<catalog, environ, queue, delivered, redelivered, processed, notified,
                   pc, page, idx, outcomes, record_calls, poll_result, image_error,
                   img, response, slept>>

NextMap == MapMain \/ MapMian \/ Post
MapSpec == MapInit /\ [][NextMap]_vars

\* The pipeline started with whatever configuration the environment holds.
ConfigSpec == ConfigInit /\ [][NextChain]_vars

\* Messages are delivered, calls are answered, and an operation that is
\* polled again and again is eventually reported COMPLETE.
ChainSpec == Init /\ [][NextChain]_vars /\ WF_vars(NextChain) /\ SF_vars(PollComplete)

(***************************************************************************)
(* Properties                                                              *)
(***************************************************************************)
Ops(log, op) == {j \in 1..Len(log) : log[j].op = op}
InRecord == pc \in {"map", "submit", "poll", "poll_check", "media", "main_image", "images"}
PageFetched == status_code = 200 /\ products # <<>>

\* C1: in sync_products, an exception raised while handling one record of a
\* non-empty page (mapping error, submission without a handle, malformed
\* poll response) is caught: the loop goes on with the record that follows,
\* so every record of the page is mapped, and submitted unless its own
\* mapping raised, before the invocation publishes and returns.
C1_BadRecordNeverAbortsPage ==
    PageFetched =>
        /\ InRecord => Len(outcomes) = idx - 1
        /\ (pc = "publish" \/ result = "Product Complete!") =>
              Len(outcomes) = Len(products)
        /\ \A i \in 1..Len(outcomes) :
              /\ outcomes[i].raised = "map" <=> MapRaises(products[i])
              /\ outcomes[i].submitted <=> ~MapRaises(products[i])

C1_Witness ==
    /\ PageFetched
    /\ result = "Product Complete!"
    /\ Len(products) = 2
    /\ outcomes[1].raised \in {"map", "submit", "poll"}
    /\ outcomes[2] = [raised |-> "", submitted |-> TRUE]

\* C2: an invocation whose fetch returned 200 with a non-empty page and
\* that came to its end published exactly one message, for offset + 1, as
\* its last call, after every record of the page had finished (whatever
\* the number of failed records), and called no completion notifier.
C2_OnePublishAfterAllRecords ==
    /\ \A j \in Ops(calls, "publish") :
          /\ j = Len(calls)
          /\ pc = "idle"
          /\ PageFetched
          /\ Len(outcomes) = Len(products)
          /\ int(calls[j].message.offset) = offset + 1
    /\ (PageFetched /\ pc = "idle") =>
          /\ result = "Product Complete!"
          /\ Cardinality(Ops(calls, "publish")) = 1
          /\ Ops(calls, "email") = {}

C2_Witness ==
    /\ PageFetched
    /\ pc = "idle"
    /\ offset = 1
    /\ \E i \in 1..Len(outcomes) : outcomes[i].raised # ""
    /\ BagIn(message_json(2), queue)

\* C3: when the fetch returns 200 with an empty list, sync_products calls
\* the completion notifier exactly once, submits no record, publishes no
\* offset and returns "Sync Complete!".
C3_EmptyPageCompletes ==
    (status_code = 200 /\ products = <<>>) =>
        /\ pc \in {"notify", "idle"}
        /\ outcomes = <<>>
        /\ record_calls = <<>>
        /\ Ops(calls, "publish") = {}
        /\ pc = "notify" => Ops(calls, "email") = {} /\ result = "running"
        /\ pc = "idle" =>
              /\ result = "Sync Complete!"
              /\ Cardinality(Ops(calls, "email")) = 1
              /\ Len(calls) = 2

C3_Witness ==
    /\ status_code = 200
    /\ products = <<>>
    /\ pc = "idle"
    /\ offset = 2
    /\ notified = 1

\* C4: when the fetch returns a status other than 200, sync_products stops
\* at once: the fetch is its only call (nothing mapped, submitted, polled,
\* attached, notified or published), and unless a message was delivered
\* again no message is left in the queue, so the chain stalls.
C4_FetchFailureStalls ==
    status_code \notin {0, 200} =>
        /\ pc = "idle"
        /\ result = Null
        /\ calls = <<[op |-> "fetch", offset |-> offset,
                      key |-> getenv("CATALOGIQ_API_KEY")]>>
        /\ outcomes = <<>>
        /\ record_calls = <<>>
        /\ redelivered = EmptyBag => queue = EmptyBag

C4_Witness ==
    /\ status_code = 500
    /\ pc = "idle"
    /\ offset = 1
    /\ queue = EmptyBag

\* Number of redeliveries of messages whose offset is at most p.
RedeliveredUpTo(p) ==
    BagCardinality([k \in {j \in BagToSet(redelivered) : j <= p} |-> redelivered[k]])

\* C5 as stated: if the message for one offset k was delivered twice, pages
\* other than page k are each processed at most once.
C5_OnlyOnePageTwice ==
    \A k \in BagToSet(redelivered) :
        redelivered = SetToBag({k}) =>
            \A p \in BagToSet(processed) : p # k => CopiesIn(p, processed) <= 1

\* C5 as amended: a page p is processed at most once more than the number
\* of redeliveries of messages with an offset at or before p; a redelivery
\* of offset k leaves the pages before k processed at most once, and may
\* double every page from k on.
C5_RedeliveryDoublesTheRest ==
    \A p \in BagToSet(processed) : CopiesIn(p, processed) <= 1 + RedeliveredUpTo(p)

C5_Witness ==
    /\ redelivered = SetToBag({0})
    /\ CopiesIn(0, processed) = 2
    /\ CopiesIn(1, processed) = 2

\* The chain has come to its end.
ChainDone ==
    /\ pc = "idle"
    /\ queue = EmptyBag
    /\ offset = Len(catalog)
    /\ result = "Sync Complete!"
    /\ notified = 1
    /\ Ops(calls, "publish") = {}
    /\ processed = SetToBag(0..(Len(catalog) - 1))

\* C6: from one trigger with offset 0, a catalog of N records, page size 1,
\* every fetch 200, every operation eventually COMPLETE and every message
\* delivered once, the pages 0, 1, ..., N-1 are processed in increasing
\* order, each exactly once, and eventually the invocation at offset N
\* notifies once and publishes nothing, after which nothing runs.
C6_ChainRunsToCompletion ==
    /\ [][processed' # processed =>
            processed' = processed (+) SetToBag({BagCardinality(processed)})]_vars
    /\ [](notified <= 1 /\ BagCardinality(queue) <= 1)
    /\ <>[]ChainDone

C6_Witness ==
    /\ ChainDone
    /\ Len(catalog) = 2

\* C7: check_operation_status returns only on a status query answered
\* COMPLETE, and what it returns comes from that answer: product_id is None
\* exactly when its product is null, user_errors are its userErrors; while
\* the loop runs nothing has been returned.
C7_ReturnsTheCompleteResponse ==
    /\ pc \in {"poll", "poll_check"} => poll_result = NoResult
    /\ pc = "media" =>
          /\ response.status = "COMPLETE"
          /\ poll_result.status = "COMPLETE"
          /\ poll_result.product_id = Null <=> response.product = <<>>
          /\ response.product # <<>> => poll_result.product_id = response.product[1]
          /\ poll_result.user_errors = response.userErrors

C7_Witness ==
    /\ pc = "media"
    /\ slept
    /\ poll_result.product_id = Null
    /\ poll_result.user_errors = <<"invalid">>

\* C8: a status query answered COMPLETE leads to the return of the poll;
\* any other status only sleeps and queries again, so as long as no query
\* is answered COMPLETE the invocation stays in the loop, attaches no media
\* and publishes nothing.
C8_PollEndsOnlyOnComplete ==
    /\ (pc = "poll_check" /\ Has(response, "status") /\ response.status = "COMPLETE")
          ~> (pc = "media")
    /\ [][(pc = "poll_check" /\ Has(response, "status") /\ response.status # "COMPLETE")
            => /\ pc' = "poll"
               /\ UNCHANGED <<queue, calls, result, record_calls, outcomes, idx>>]_vars
    /\ [](pc \in {"poll", "poll_check"} =>
            /\ Ops(record_calls, "attach") = {}
            /\ Ops(calls, "publish") = {}
            /\ result = "running")

C8_Witness ==
    /\ pc = "poll"
    /\ slept
    /\ response.status = "FAILED"

\* The record of the loop that has just ended, and its additional-image
\* calls.
ended == products[idx - 1]
RecordEnded == pc \in {"map", "publish"} /\ idx >= 2 /\ Len(outcomes) = idx - 1
Attached(alt) ==
    LET at == SelectSeq(record_calls, LAMBDA c : c.op = "attach" /\ c.alt = alt)
    IN  [j \in 1..Len(at) |-> at[j].url]

\* C9: in sync_products_to_shopify a failure while attaching one image
\* (the call raising, an error response, an image entry without url) does
\* not prevent the attach calls for the images after it: once the record
\* has ended, every additional image that has a url was attempted.
C9_ImageFailureSkipsNothing ==
    (RecordEnded /\ Truthy(poll_result.product_id) /\ Has(ended, "main_image")) =>
        \A j \in 1..Len(ended.images) :
            Has(ended.images[j], "url") =>
                \E c \in 1..Len(Attached("Image")) :
                    Attached("Image")[c] = ended.images[j].url

\* C10: for a record whose operation completed with a product id, the
\* attach calls are one for the main image first, if the record has one,
\* then one per entry of images in source order; a record without a main
\* image still gets all its additional images (here: when no call raised
\* and every image entry has a url).
C10_MainThenImagesInOrder ==
    (/\ RecordEnded
     /\ Truthy(poll_result.product_id)
     /\ \A j \in 1..Len(record_calls) :
           Has(record_calls[j], "out") => record_calls[j].out # "raises"
     /\ \A j \in 1..Len(ended.images) : Has(ended.images[j], "url")) =>
        /\ Attached("Main Image") =
              IF Has(ended, "main_image") /\ Truthy(ended.main_image)
              THEN <<ended.main_image>> ELSE <<>>
        /\ Attached("Image") = [j \in 1..Len(ended.images) |-> ended.images[j].url]
        /\ \A i, j \in 1..Len(record_calls) :
              (record_calls[i].op = "attach" /\ record_calls[j].op = "attach"
               /\ record_calls[j].alt = "Main Image" /\ i # j) => j < i

\* C15: when a required configuration value (source API key, target access
\* token, target store, notifier API key) is not in the environment,
\* sync_products aborts before any network call: no fetch, no submission,
\* no notification, no publish.
C15_MissingConfigAborts ==
    (\E k \in EnvKeys : getenv(k) = Null) =>
        /\ calls = <<>>
        /\ record_calls = <<>>
        /\ notified = 0
        /\ pc \in {"idle", "fetch"}

\* C16: a send that raises is caught inside send_completion_email: the
\* invocation that made it still returns "Sync Complete!" and publishes
\* no offset.
C16_NotifierFailureContained ==
    \A j \in Ops(calls, "email") :
        calls[j].out = "raises" =>
            /\ pc = "idle"
            /\ result = "Sync Complete!"
            /\ j = Len(calls)
            /\ Ops(calls, "publish") = {}
            /\ redelivered = EmptyBag => queue = EmptyBag

C16_Witness ==
    /\ Len(calls) = 2
    /\ calls[2].op = "email"
    /\ calls[2].out = "raises"
    /\ offset = 2
    /\ result = "Sync Complete!"

\* C20: attach calls are made for a record only after its operation was
\* polled to COMPLETE with a product id; when it completes with a null
\* product no attach call is made, nothing is raised, and the loop goes on
\* with the next record or the publish.
C20_AttachOnlyWithProductId ==
    /\ Ops(record_calls, "attach") # {} =>
          /\ poll_result.status = "COMPLETE"
          /\ poll_result.product_id = "gid://1"
    /\ (poll_result.status = "COMPLETE" /\ poll_result.product_id = Null
        /\ pc # "media") =>
          /\ RecordEnded
          /\ pc = LoopNext(idx - 1, Len(products))
          /\ outcomes[idx - 1] = [raised |-> "", submitted |-> TRUE]
          /\ Ops(record_calls, "attach") = {}
          /\ ~image_error

C20_Witness ==
    /\ poll_result.status = "COMPLETE"
    /\ poll_result.product_id = Null
    /\ pc = "map"
    /\ idx = 2
    /\ Has(products[1], "main_image")
    /\ Truthy(products[1].main_image)

(***************************************************************************)
(* The mapper's contract, over MapSpec.                                    *)
(***************************************************************************)
\* The mapper has returned a dictionary for the record.
Mapped == mapper.stage \in {"mapped", "posted"}
\* Variant i of the source record has an attribute named A.
HasAttribute(i, A) ==
    \E j \in 1..Len(mapper.ciq_product.variants[i].attributes) :
        mapper.ciq_product.variants[i].attributes[j].name = A
\* The values of the attributes named A over all source variants.
AttributeValues(A) ==
    UNION {{mapper.ciq_product.variants[i].attributes[j].value :
               j \in {j \in 1..Len(mapper.ciq_product.variants[i].attributes) :
                         mapper.ciq_product.variants[i].attributes[j].name = A}} :
           i \in 1..Len(mapper.ciq_product.variants)}
\* The attribute names over all source variants.
AttributeNames ==
    UNION {{mapper.ciq_product.variants[i].attributes[j].name :
               j \in 1..Len(mapper.ciq_product.variants[i].attributes)} :
           i \in 1..Len(mapper.ciq_product.variants)}

\* C11: for every source variant V and every option axis A of the product,
\* the mapped variant's optionValues has an entry with optionName A if and
\* only if V has an attribute named A, whatever its value.
C11_OptionValueIffAttribute ==
    (Mapped /\ mapper.which = "main") =>
        \A i \in 1..Len(mapper.ciq_product.variants) :
            \A o \in 1..Len(mapper.mapped_product.productOptions) :
                LET A == mapper.mapped_product.productOptions[o].name
                    optionValues == mapper.mapped_product.variants[i].optionValues
                IN  (\E e \in 1..Len(optionValues) : optionValues[e].optionName = A)
                        <=> HasAttribute(i, A)

\* C12: for a source product with at least one variant, the names in
\* productOptions are exactly the attribute names found on its variants,
\* each of them once.
C12_OptionsAreTheAttributeNames ==
    (Mapped /\ Len(mapper.ciq_product.variants) >= 1) =>
        LET productOptions == mapper.mapped_product.productOptions
        IN  /\ {productOptions[o].name : o \in 1..Len(productOptions)} = AttributeNames
            /\ \A a, b \in 1..Len(productOptions) :
                  productOptions[a].name = productOptions[b].name => a = b

C12_Witness ==
    /\ mapper.stage = "mapped"
    /\ mapper.which = "main"
    /\ Len(mapper.ciq_product.variants) = 2
    /\ HasAttribute(1, "Size") /\ ~HasAttribute(1, "Color")
    /\ HasAttribute(2, "Size") /\ HasAttribute(2, "Color")
    /\ Len(mapper.mapped_product.productOptions) = 2

\* C13: the values of every axis A of the mapped output hold no name twice,
\* and their names are exactly the values of the attributes named A on the
\* source variants.
C13_AxisValuesAreTheAttributeValues ==
    Mapped =>
        \A o \in 1..Len(mapper.mapped_product.productOptions) :
            LET A == mapper.mapped_product.productOptions[o]
            IN  /\ \A a, b \in 1..Len(A.values) :
                      A.values[a].name = A.values[b].name => a = b
                /\ {A.values[a].name : a \in 1..Len(A.values)} = AttributeValues(A.name)

C13_Witness ==
    /\ mapper.stage = "mapped"
    /\ mapper.which = "main"
    /\ Len(mapper.ciq_product.variants) = 2
    /\ mapper.ciq_product.variants[1].attributes = <<[name |-> "Size", value |-> "S"]>>
    /\ mapper.ciq_product.variants[2].attributes =
           <<[name |-> "Size", value |-> "S"], [name |-> "Size", value |-> "M"]>>
    /\ Len(mapper.mapped_product.productOptions[1].values) = 2

\* C14: the payload main.py posts never has more variants than the
\* platform's limit; of a longer source list only the first VariantLimit
\* variants are sent.
C14_NeverMoreThanTheLimit ==
    (mapper.stage = "posted" /\ mapper.which = "main") =>
        /\ Len(mapper.json.input.variants) <= VariantLimit
        /\ \A i \in 1..Len(mapper.json.input.variants) :
              mapper.json.input.variants[i].sku = mapper.ciq_product.variants[i].default_code

\* C17: the mapper raises only on a record without name or without
\* variants; a record with both is mapped whatever else it lacks.
C17_OnlyNameOrVariantsFail ==
    (mapper.stage = "raised" /\ mapper.which = "main") =>
        ~Has(mapper.ciq_product, "name") \/ ~Has(mapper.ciq_product, "variants")

\* C18: descriptionHtml is the empty string when description_sale is absent,
\* None or empty, and description_sale otherwise, in main.py and in mian.py.
C18_DescriptionOrEmpty ==
    Mapped =>
        mapper.mapped_product.descriptionHtml =
            IF ~Has(mapper.ciq_product, "description_sale") THEN ""
            ELSE IF mapper.ciq_product.description_sale \in {Null, ""} THEN ""
            ELSE mapper.ciq_product.description_sale

\* C19: metafields is always there, as long as the record's attribute list
\* and in its order: entry i has the category, description, name and value
\* of attribute i and the type "string"; nothing is filtered or merged.
C19_MetafieldsProjectAttributes ==
    Mapped =>
        /\ Has(mapper.mapped_product, "metafields")
        /\ Len(mapper.mapped_product.metafields) = Len(mapper.ciq_product.attributes)
        /\ \A i \in 1..Len(mapper.ciq_product.attributes) :
              mapper.mapped_product.metafields[i] =
                  [namespace |-> mapper.ciq_product.attributes[i].category,
                   description |-> mapper.ciq_product.attributes[i].description,
                   key |-> mapper.ciq_product.attributes[i].name,
                   value |-> mapper.ciq_product.attributes[i].value,
                   type |-> "string"]

C19_Witness ==
    /\ mapper.stage = "mapped"
    /\ mapper.which = "main"
    /\ Len(mapper.ciq_product.attributes) = 2
    /\ mapper.ciq_product.attributes[1].name = mapper.ciq_product.attributes[2].name
    /\ mapper.ciq_product.attributes[1].value = "2kg"
    /\ mapper.ciq_product.attributes[2].value = ""
    /\ Len(mapper.mapped_product.metafields) = 2

\* C21: every value listed for an axis is used by a submitted variant: for
\* every axis A and every entry v of its values some mapped variant has the
\* optionValues entry (A, v); in main.py's mapper and in mian.py's.
C21_EveryAxisValueIsUsed ==
    Mapped =>
        \A o \in 1..Len(mapper.mapped_product.productOptions) :
            LET A == mapper.mapped_product.productOptions[o]
            IN  \A a \in 1..Len(A.values) :
                    \E i \in 1..Len(mapper.mapped_product.variants) :
                        \E e \in 1..Len(mapper.mapped_product.variants[i].optionValues) :
                            mapper.mapped_product.variants[i].optionValues[e] =
                                [optionName |-> A.name, name |-> A.values[a].name]

\* C22: a mapped variant has at most one optionValues entry per axis, and
\* the entry for axis A carries the value of the first attribute named A in
\* the source variant's list; later ones of that name are ignored.
C22_OneEntryPerAxisFirstMatch ==
    Mapped =>
        \A i \in 1..Len(mapper.mapped_product.variants) :
            LET optionValues == mapper.mapped_product.variants[i].optionValues
                attributes == mapper.ciq_product.variants[i].attributes
            IN  /\ \A d, e \in 1..Len(optionValues) :
                      optionValues[d].optionName = optionValues[e].optionName => d = e
                /\ \A e \in 1..Len(optionValues) :
                      \E j \in 1..Len(attributes) :
                          /\ attributes[j].name = optionValues[e].optionName
                          /\ attributes[j].value = optionValues[e].name
                          /\ \A k \in 1..(j - 1) :
                                attributes[k].name # optionValues[e].optionName

C22_Witness ==
    /\ mapper.stage = "mapped"
    /\ mapper.which = "main"
    /\ Len(mapper.ciq_product.variants) = 1
    /\ mapper.ciq_product.variants[1].attributes =
           <<[name |-> "Size", value |-> "S"], [name |-> "Size", value |-> "M"]>>
    /\ mapper.mapped_product.variants[1].optionValues =
           <<[optionName |-> "Size", name |-> "S"]>>

\* C23: in main.py's payload every optionValues entry (A, v) of a variant
\* names an axis of productOptions and one of that axis's values, and the
\* mapped variants are the source variants one for one, in their order,
\* with sku equal to default_code.
C23_ReferentialIntegrity ==
    (Mapped /\ mapper.which = "main") =>
        LET productOptions == mapper.mapped_product.productOptions
            variants == mapper.mapped_product.variants
        IN  /\ Len(variants) = Len(mapper.ciq_product.variants)
            /\ \A i \in 1..Len(variants) :
                  /\ variants[i].sku = mapper.ciq_product.variants[i].default_code
                  /\ \A e \in 1..Len(variants[i].optionValues) :
                        \E o \in 1..Len(productOptions) :
                            /\ productOptions[o].name = variants[i].optionValues[e].optionName
                            /\ \E a \in 1..Len(productOptions[o].values) :
                                  productOptions[o].values[a].name =
                                      variants[i].optionValues[e].name

C23_Witness ==
    /\ mapper.stage = "mapped"
    /\ mapper.which = "main"
    /\ Len(mapper.ciq_product.variants) = 2
    /\ mapper.ciq_product.variants[1].attributes =
           <<[name |-> "Size", value |-> "S"], [name |-> "Color", value |-> "Red"]>>
    /\ mapper.ciq_product.variants[2].attributes = <<[name |-> "Size", value |-> "M"]>>
    /\ Len(mapper.mapped_product.variants[1].optionValues) = 2
    /\ mapper.mapped_product.variants[2].optionValues =
           <<[optionName |-> "Size", name |-> "M"]>>
    /\ mapper.mapped_product.variants[2].sku = str(2)

====
